---- MODULE Spec2Model ----
(***************************************************************************)
(* State-machine model of the vectorized sort operator VSortNode           *)
(* (be/src/vec/exec/vsort_node.cpp): the build phase sort_input, the       *)
(* in-run sort partial_sort, the top-N pruning heap, build_merge_tree,     *)
(* the k-way merge merge_sort_read, and the operator calls open, get_next, *)
(* reset and close.                                                        *)
(*                                                                         *)
(* A row is a tuple with one value per sort key; the value 0 is NULL.      *)
(* A block is a sequence of rows.                                          *)
(***************************************************************************)
EXTENDS Integers, Sequences, FiniteSets, TLC

\* ---------------------------------------------------------------- bounds
MaxVal == 1
MaxRows == 4
MaxLimit == 2
MaxOffset == MaxLimit + 1
MaxBatch == MaxLimit
\* get_next calls followed after the first eos
MaxLateCalls == 2
\* The run threshold of the build loop (1024 * 1024 rows in the build), scaled down.
BUFFERED_BLOCK_SIZE == 3
MaxBlockRows == BUFFERED_BLOCK_SIZE - 1
\* the scenario of three runs with disjoint value ranges: runs, and values per range
ScenarioRuns == 3
ScenarioRange == 2
\* (UInt64)(-1): what the UInt64 parameter of sort_block receives for _offset + _limit = -1;
\* any value above every block's row count behaves alike.
UINT64_MINUS_ONE == 2147483647

NULL == 0

VARIABLES
    _limit,                \* ExecNode::_limit; -1 = no limit
    _offset,               \* VSortNode::_offset (decremented by the merge)
    cfg_offset,            \* the configured offset (history: _offset at construction)
    batch_size,            \* state->batch_size(); 0 until the build ends (it is not read before)
    _is_asc_order,         \* per key
    _nulls_first,          \* per key
    _num_rows_skipped,
    _num_rows_returned,    \* ExecNode::_num_rows_returned
    _num_rows_in_block,
    is_cancelled,          \* state->is_cancelled(), set from outside while open() runs
    buffer_fresh,          \* whether _unsorted_block points to a MutableBlock that to_block
                           \* has not been called on
    _unsorted_block,       \* the run buffer, its rows kept smallest value first: what
                           \* sort_block makes of them does not depend on their order
    _sorted_blocks,        \* the run list
    _block_priority_queue, \* pruning heap: indices of the runs whose cursor it holds
    _cursors,              \* per run: pos of its merge cursor (0-based)
    _priority_queue,       \* merge heap: indices of the runs whose cursor it holds
    _is_closed,            \* ExecNode::_is_closed
    move_empties_block,    \* whether Block's move constructor leaves the source without rows
    exprs,                 \* _vsort_exec_exprs: "prepared", "open", "closed"
    pc,                    \* "prepared", "pull", "sort", "opened", "failed", "crashed"
    eos_up,                \* sort_input's local eos
    status,                \* status of the last call
    block,                 \* the caller's block after the last get_next
    eos,                   \* *eos after the last get_next
    path,                  \* branch the last get_next took: "none", "empty", "single", "merge"
    calls,                 \* history: did get_next return yet, and was it the first call
    late,                  \* history: the get_next calls made after a call had returned eos
    input,                 \* history: all upstream rows, smallest value first
    delivered,             \* history: all rows delivered by get_next, in delivery order
    merged_total,          \* history: the sum of merged_rows over all merge_sort_read calls
    last_discarded         \* history: the run the last build step discarded, or <<>>

vars == <<_limit, _offset, cfg_offset, batch_size, _is_asc_order, _nulls_first,
          _num_rows_skipped, _num_rows_returned, _num_rows_in_block, _unsorted_block,
          _sorted_blocks, _block_priority_queue, _cursors, _priority_queue, _is_closed,
          move_empties_block, is_cancelled, buffer_fresh,
          exprs, pc, eos_up, status, block, eos, path, calls, late, input, delivered,
          merged_total, last_discarded>>

cfg_vars == <<_limit, cfg_offset, _is_asc_order, _nulls_first, move_empties_block>>

\* ------------------------------------------------------------ sequences
SeqsUpTo(S, n) == UNION {[1..k -> S] : k \in 0..n}

Rows(nk) == [1..nk -> 0..MaxVal]

Take(s, n) == SubSeq(s, 1, IF n < Len(s) THEN n ELSE Len(s))

Drop(s, n) == SubSeq(s, n + 1, Len(s))

RECURSIVE SumRows(_)
SumRows(blocks) == IF blocks = <<>> THEN 0 ELSE Len(Head(blocks)) + SumRows(Tail(blocks))

\* the rows' values compared key by key, NULL as 0: a plain order for the history
RECURSIVE RawLess(_, _, _)
RawLess(a, b, k) ==
    IF k > Len(a) THEN FALSE
    ELSE IF a[k] # b[k] THEN a[k] < b[k]
    ELSE RawLess(a, b, k + 1)

\* s with the row r put before the first row that is larger in that order
RECURSIVE Insert(_, _)
Insert(s, r) ==
    IF s = <<>> THEN <<r>>
    ELSE IF RawLess(r, Head(s), 1) THEN <<r>> \o s
    ELSE <<Head(s)>> \o Insert(Tail(s), r)

RECURSIVE InsertAll(_, _)
InsertAll(s, rows) == IF rows = <<>> THEN s ELSE InsertAll(Insert(s, Head(rows)), Tail(rows))

Perms(n) == {p \in [1..n -> 1..n] : \A i, j \in 1..n : i # j => p[i] # p[j]}

\* ----------------------------------------------------- SortDescription
\* _sort_description[i].direction
direction(i) == IF _is_asc_order[i] THEN 1 ELSE -1

\* _sort_description[i].nulls_direction
nulls_direction(i) == IF _nulls_first[i] THEN -direction(i) ELSE direction(i)

native_compare(a, b) == IF a < b THEN -1 ELSE IF a > b THEN 1 ELSE 0

\* IColumn::compare_at of a nullable column
compare_at(a, b, nd) ==
    IF a = NULL /\ b = NULL THEN 0
    ELSE IF a = NULL THEN nd
    ELSE IF b = NULL THEN -nd
    ELSE native_compare(a, b)

\* The comparison of two rows under the SortDescription: <0, 0, >0
RECURSIVE row_compare(_, _, _)
row_compare(a, b, i) ==
    IF i > Len(_is_asc_order) THEN 0
    ELSE LET res == direction(i) * compare_at(a[i], b[i], nulls_direction(i))
         IN  IF res # 0 THEN res ELSE row_compare(a, b, i + 1)

LessEq(a, b) == row_compare(a, b, 1) <= 0

IsSorted(s) == \A i \in 1..Len(s) - 1 : LessEq(s[i], s[i + 1])

\* s, sorted under the SortDescription, with the row r put in its place
RECURSIVE SortedInsert(_, _)
SortedInsert(s, r) ==
    IF s = <<>> THEN <<r>>
    ELSE IF row_compare(r, Head(s), 1) < 0 THEN <<r>> \o s
    ELSE <<Head(s)>> \o SortedInsert(Tail(s), r)

RECURSIVE SortedSeq(_)
SortedSeq(s) == IF s = <<>> THEN <<>> ELSE SortedInsert(SortedSeq(Tail(s)), Head(s))

\* ---------------------------------------------------------- sort_block
\* The orders sort_block may leave a block in: with a cap below the row count only the
\* first cap rows are the smallest ones in order, the block keeps all rows.
sort_block(blk, cap) ==
    LET n == Len(blk)
        h == IF cap = 0 \/ cap >= n THEN n ELSE cap
        sorted == SortedSeq(blk)
    IN  {[i \in 1..n |-> IF i <= h THEN sorted[i] ELSE sorted[h + p[i - h]]] :
            p \in Perms(n - h)}

\* The UInt64 argument partial_sort passes to sort_block: _offset + _limit
limit_hint == IF _offset + _limit < 0 THEN UINT64_MINUS_ONE ELSE _offset + _limit

partial_sort_none(blk) == {blk}

partial_sort(blk) == sort_block(blk, limit_hint)

\* ------------------------------------------------------- pruning heap
\* SortBlockCursor::totally_greater: the first row of blk is not less than the last row of top
totally_greater(blk, top) ==
    IF Len(blk) = 0 \/ Len(top) = 0 THEN FALSE
    ELSE ~(row_compare(blk[1], top[Len(top)], 1) < 0)

\* _block_priority_queue.top(): a cursor whose block's last row is largest
heap_top ==
    CHOOSE i \in _block_priority_queue :
        \A j \in _block_priority_queue :
            LessEq(_sorted_blocks[j][Len(_sorted_blocks[j])], _sorted_blocks[i][Len(_sorted_blocks[i])])

\* the test that admits a run without looking at the heap
admit_unconditionally == _num_rows_in_block < _limit

discard_never(blk) == FALSE

discard_unless_greater(blk) == ~totally_greater(blk, _sorted_blocks[heap_top])

\* the test that throws a run away
discard_run(blk) == totally_greater(blk, _sorted_blocks[heap_top])

\* block.rows() read after std::move(block): 0 when the move emptied the block, its
\* row count when the move left it alone
moved_from_rows(blk) == IF move_empties_block THEN 0 ELSE Len(blk)

\* the build loop extracts a run only from a buffer that holds rows
has_rows_or_empty(buf) == Len(buf) >= 0

has_rows_always(buf) == TRUE

has_rows(buf) == Len(buf) > 0

\* ------------------------------------------------------------ ExecNode
\* ExecNode::reached_limit: cut the block at the limit and flag eos
reached_limit(blk, e) ==
    IF _limit # -1 /\ _num_rows_returned + Len(blk) >= _limit
    THEN [block |-> Take(blk, _limit - _num_rows_returned), eos |-> TRUE]
    ELSE [block |-> blk, eos |-> e]

deliver_unlimited(blk, e) == [block |-> blk, eos |-> e]

\* get_next applies reached_limit to what the chosen branch left in the block
deliver(blk, e) == reached_limit(blk, e)

\* Block::skip_num_rows
skip_num_rows(blk, n) == IF n >= Len(blk) THEN <<>> ELSE Drop(blk, n)

fast_path_rows_no_skip(run) == run

\* get_next, single run: the rows it swaps into the caller's block
fast_path_rows(run) == IF _offset # 0 THEN skip_num_rows(run, _offset) ELSE run

\* ---------------------------------------------------------------- merge
\* SortCursor::isLast
isLast(i, pos) == pos[i] + 1 >= Len(_sorted_blocks[i])

current_row(i, pos) == _sorted_blocks[i][pos[i] + 1]

\* _priority_queue.top(): a cursor whose current row no other cursor's is less than
merge_tops(q, pos) ==
    {i \in q : \A j \in q : LessEq(current_row(i, pos), current_row(j, pos))}

merge_stop_late(merged_rows) == merged_rows = batch_size + 1

\* the batch is full
merge_stop(merged_rows) == merged_rows = batch_size

skip_never(off) == FALSE

\* the popped row is consumed by the offset instead of being emitted
skip_row(off) == off # 0

\* The while loop of merge_sort_read, from a heap q with cursor positions pos, the
\* remaining offset off and the rows merged so far: the states it can end in.
RECURSIVE merge_loop(_, _, _, _)
merge_loop(q, pos, off, merged) ==
    IF q = {} THEN {[q |-> q, pos |-> pos, off |-> off, merged |-> merged]}
    ELSE UNION {
        LET merged2 == IF skip_row(off) THEN merged ELSE Append(merged, current_row(i, pos))
            off2 == IF skip_row(off) THEN off - 1 ELSE off
            q2 == IF isLast(i, pos) THEN q \ {i} ELSE q
            pos2 == IF isLast(i, pos) THEN pos ELSE [pos EXCEPT ![i] = @ + 1]
        IN  IF merge_stop(Len(merged2))
            THEN {[q |-> q2, pos |-> pos2, off |-> off2, merged |-> merged2]}
            ELSE merge_loop(q2, pos2, off2, merged2)
        : i \in merge_tops(q, pos)}

merge_sort_read_drops_cursors ==
    {[m EXCEPT !.q = {}, !.merged = IF Len(m.merged) = 0 THEN <<>> ELSE m.merged] @@
       [eos |-> Len(m.merged) = 0]
        : m \in merge_loop(_priority_queue, _cursors, _offset, <<>>)}

merge_sort_read_never_eos ==
    {[m EXCEPT !.merged = IF Len(m.merged) = 0 THEN <<>> ELSE m.merged] @@ [eos |-> FALSE]
        : m \in merge_loop(_priority_queue, _cursors, _offset, <<>>)}

\* merge_sort_read on a caller's block that holds no rows
merge_sort_read ==
    {[m EXCEPT !.merged = IF Len(m.merged) = 0 THEN <<>> ELSE m.merged] @@
       [eos |-> Len(m.merged) = 0]
        : m \in merge_loop(_priority_queue, _cursors, _offset, <<>>)}

\* ----------------------------------------------------------------- Init
InitKeys(nk) ==
    /\ _limit \in -1..MaxLimit
    /\ cfg_offset \in 0..MaxOffset
    /\ _offset = cfg_offset
    /\ batch_size = 0
    /\ _is_asc_order \in [1..nk -> BOOLEAN]
    /\ _nulls_first \in [1..nk -> BOOLEAN]
    /\ _num_rows_skipped = 0
    /\ _num_rows_returned = 0
    /\ _num_rows_in_block = 0
    /\ _unsorted_block = <<>>
    /\ buffer_fresh = TRUE
    /\ is_cancelled = FALSE
    /\ _sorted_blocks = <<>>
    /\ _block_priority_queue = {}
    /\ _cursors = <<>>
    /\ _priority_queue = {}
    /\ _is_closed = FALSE
    /\ move_empties_block \in IF _limit = -1 THEN {TRUE} ELSE BOOLEAN
    /\ exprs = "prepared"
    /\ pc = "prepared"
    /\ eos_up = FALSE
    /\ status = "OK"
    /\ block = <<>>
    /\ eos = FALSE
    /\ path = "none"
    /\ calls = 0
    /\ late = 0
    /\ input = <<>>
    /\ delivered = <<>>
    /\ merged_total = 0
    /\ last_discarded = <<>>

Init == InitKeys(1)

\* ----------------------------------------------------------------- open
build_vars == <<_num_rows_in_block, _unsorted_block, buffer_fresh, _sorted_blocks,
                _block_priority_queue,
                _cursors, _priority_queue, eos_up, input, last_discarded>>

next_vars == <<_offset, _num_rows_returned, block, eos, path, calls, late, delivered,
               merged_total>>

\* open() up to the call of sort_input
open ==
    /\ pc = "prepared"
    /\ ~_is_closed
    /\ exprs' = "open"
    /\ IF is_cancelled
       THEN pc' = "failed" /\ status' = "Cancelled"
       ELSE \/ pc' = "pull" /\ status' = "OK"
            \/ pc' = "failed" /\ status' = "Error"
    /\ UNCHANGED <<cfg_vars, batch_size, build_vars, next_vars, _num_rows_skipped, _is_closed,
                   is_cancelled>>

\* sort_input: one pass of the inner do-while loop, the upstream delivering one of Blocks
\* with eos one of Eos, and the buffer's bytes reaching the threshold or not as in Full
sort_input_pull_from(Blocks, Eos, Full) ==
    /\ pc = "pull"
    /\ \/ \E blk \in Blocks, e \in Eos, bytes_full \in Full :
            /\ LET buf == IF Len(blk) # 0 THEN InsertAll(_unsorted_block, blk)
                                             ELSE _unsorted_block
               IN  /\ bytes_full => Len(buf) > 0
                   /\ _unsorted_block' = buf
                   /\ pc' = IF ~e /\ Len(buf) < BUFFERED_BLOCK_SIZE /\ ~bytes_full
                            THEN "pull" ELSE "sort"
            /\ eos_up' = e
            /\ input' = InsertAll(input, blk)
            /\ status' = "OK"
       \/ /\ pc' = "failed"
          /\ status' = "Error"
          /\ UNCHANGED <<_unsorted_block, eos_up, input>>
    /\ UNCHANGED <<cfg_vars, batch_size, next_vars, _num_rows_skipped, _is_closed, exprs,
                   _num_rows_in_block, _sorted_blocks, _block_priority_queue, _cursors,
                   _priority_queue, last_discarded, buffer_fresh, is_cancelled>>

\* the upstream delivers any block that keeps the input within MaxRows rows
sort_input_pull ==
    sort_input_pull_from(
        {blk \in SeqsUpTo(Rows(Len(_is_asc_order)), MaxBlockRows) :
            Len(input) + Len(blk) <= MaxRows},
        BOOLEAN, BOOLEAN)

build_merge_tree_always_push(sb) ==
    /\ _cursors' = [i \in 1..Len(sb) |-> 0]
    /\ _priority_queue' = 1..Len(sb)

\* build_merge_tree over the run list sb
build_merge_tree(sb) ==
    /\ _cursors' = [i \in 1..Len(sb) |-> 0]
    /\ _priority_queue' = IF Len(sb) > 1 THEN 1..Len(sb) ELSE {}

\* the outer loop's test, and what follows the loop
sort_input_loop_end(sb) ==
    /\ status' = "OK"
    /\ IF eos_up
       THEN build_merge_tree(sb) /\ pc' = "opened" /\ batch_size' \in 1..MaxBatch
       ELSE pc' = "pull" /\ UNCHANGED <<_cursors, _priority_queue, batch_size>>

\* RETURN_IF_CANCELLED, check_query_state, the new buffer, then the loop's test
sort_input_checkpoint(sb) ==
    IF is_cancelled
    THEN /\ pc' = "failed"
         /\ status' = "Cancelled"
         /\ buffer_fresh' = FALSE
         /\ UNCHANGED <<_cursors, _priority_queue, batch_size>>
    ELSE \/ /\ buffer_fresh' = TRUE
            /\ sort_input_loop_end(sb)
         \/ /\ pc' = "failed"
            /\ status' = "Error"
            /\ buffer_fresh' = FALSE
            /\ UNCHANGED <<_cursors, _priority_queue, batch_size>>

admit(run) ==
    /\ _sorted_blocks' = Append(_sorted_blocks, run)
    /\ last_discarded' = <<>>
    /\ sort_input_checkpoint(Append(_sorted_blocks, run))

discard(run) ==
    /\ last_discarded' = run
    /\ buffer_fresh' = FALSE
    /\ UNCHANGED <<_sorted_blocks, _block_priority_queue, _num_rows_in_block>>
    /\ sort_input_loop_end(_sorted_blocks)

\* sort_input: the rest of one pass of the outer loop
sort_input_run ==
    /\ pc = "sort"
    /\ _unsorted_block' = <<>>
    /\ IF has_rows(_unsorted_block)
       THEN \E run \in partial_sort(_unsorted_block) :
              IF _limit # -1
              THEN IF admit_unconditionally
                   THEN /\ _num_rows_in_block' = _num_rows_in_block + moved_from_rows(run)
                        /\ _block_priority_queue' =
                               _block_priority_queue \cup {Len(_sorted_blocks) + 1}
                        /\ admit(run)
                   ELSE IF _block_priority_queue = {}
                   THEN \* top() of an empty priority_queue
                        \/ /\ pc' = "crashed"
                           /\ status' = "Crashed"
                           /\ buffer_fresh' = FALSE
                           /\ UNCHANGED <<_sorted_blocks, _block_priority_queue,
                                          _num_rows_in_block, _cursors, _priority_queue,
                                          batch_size, last_discarded>>
                        \/ /\ _block_priority_queue' = {Len(_sorted_blocks) + 1}
                           /\ UNCHANGED _num_rows_in_block
                           /\ admit(run)
                        \/ discard(run)
                   ELSE IF discard_run(run)
                   THEN discard(run)
                   ELSE /\ _block_priority_queue' =
                               _block_priority_queue \cup {Len(_sorted_blocks) + 1}
                        /\ UNCHANGED _num_rows_in_block
                        /\ admit(run)
              ELSE /\ UNCHANGED <<_block_priority_queue, _num_rows_in_block>>
                   /\ admit(run)
       ELSE /\ UNCHANGED <<_sorted_blocks, _block_priority_queue, _num_rows_in_block,
                           buffer_fresh>>
            /\ last_discarded' = <<>>
            /\ sort_input_loop_end(_sorted_blocks)
    /\ UNCHANGED <<cfg_vars, next_vars, _num_rows_skipped, _is_closed, exprs, eos_up,
                   input, is_cancelled>>

\* ------------------------------------------------------------- get_next
\* The rows of the block the caller passes to get_next: none (a new or a cleared block),
\* or, once a call has returned eos, also the block as that call left it.
EntryBlocks == IF calls > 0 /\ eos THEN {<<>>, block} ELSE {<<>>}

\* what the three branches of get_next leave behind, given the rows of the caller's
\* block: untouched without runs, swapped with the single run, or with the merged rows
\* inserted into its columns
get_next_branch(entry) ==
    IF _sorted_blocks = <<>>
    THEN {[blk |-> entry, e |-> TRUE, sb |-> _sorted_blocks, q |-> _priority_queue,
           pos |-> _cursors, off |-> _offset, path |-> "empty", merged_rows |-> 0]}
    ELSE IF Len(_sorted_blocks) = 1
    THEN {[blk |-> fast_path_rows(_sorted_blocks[1]), e |-> TRUE, sb |-> <<entry>>,
           q |-> _priority_queue, pos |-> _cursors, off |-> _offset, path |-> "single",
           merged_rows |-> 0]}
    ELSE {[blk |-> entry \o m.merged, e |-> m.eos, sb |-> _sorted_blocks, q |-> m.q,
           pos |-> m.pos, off |-> m.off, path |-> "merge", merged_rows |-> Len(m.merged)]
             : m \in merge_sort_read}

get_next ==
    /\ pc = "opened"
    /\ ~_is_closed
    /\ late < MaxLateCalls
    /\ \E entry \in EntryBlocks : \E b \in get_next_branch(entry) :
          LET d == deliver(b.blk, b.e)
          IN  /\ block' = d.block
              /\ eos' = d.eos
              /\ _num_rows_returned' = _num_rows_returned + Len(d.block)
              /\ delivered' = delivered \o d.block
              /\ _sorted_blocks' = b.sb
              /\ _priority_queue' = b.q
              /\ _cursors' = b.pos
              /\ _offset' = b.off
              /\ path' = b.path
              /\ merged_total' = merged_total + b.merged_rows
    /\ calls' = IF calls < 2 THEN calls + 1 ELSE calls
    /\ late' = IF calls > 0 /\ eos THEN late + 1 ELSE late
    /\ status' = "OK"
    /\ UNCHANGED <<cfg_vars, batch_size, _num_rows_skipped, _num_rows_in_block,
                   _unsorted_block, _block_priority_queue, _is_closed, exprs, pc, eos_up,
                   input, last_discarded, buffer_fresh, is_cancelled>>

\* ---------------------------------------------------------- reset, close
reset_clears_returned ==
    /\ pc \in {"opened", "failed"}
    /\ ~_is_closed
    /\ _num_rows_skipped' = 0
    /\ _num_rows_returned' = 0
    /\ status' = "OK"
    /\ UNCHANGED <<cfg_vars, batch_size, build_vars, _offset, block, eos, path, calls, late,
                   delivered, merged_total, _is_closed, exprs, pc, is_cancelled>>

\* reset() after open() has returned, with OK or with an error
reset ==
    /\ pc \in {"opened", "failed"}
    /\ ~_is_closed
    /\ _num_rows_skipped' = 0
    /\ status' = "OK"
    /\ UNCHANGED <<cfg_vars, batch_size, build_vars, next_vars, _is_closed, exprs, pc,
                   is_cancelled>>

\* ExecNode::close
ExecNode_close == _is_closed' = TRUE

close ==
    /\ pc \in {"prepared", "opened", "failed"}
    /\ IF _is_closed
       THEN UNCHANGED <<exprs, _is_closed>>
       ELSE exprs' = "closed" /\ ExecNode_close
    /\ status' = "OK"
    /\ UNCHANGED <<cfg_vars, batch_size, build_vars, next_vars, _num_rows_skipped, pc,
                   is_cancelled>>

\* the query is cancelled from outside; the flag is read by open() and sort_input only
cancel ==
    /\ pc \in {"prepared", "pull", "sort"}
    /\ ~is_cancelled
    /\ is_cancelled' = TRUE
    /\ UNCHANGED <<cfg_vars, batch_size, build_vars, next_vars, _num_rows_skipped,
                   _is_closed, exprs, pc, status>>

Next ==
    open \/ sort_input_pull \/ sort_input_run \/ get_next \/ reset \/ close \/ cancel

Spec == Init /\ [][Next]_vars

\* ------------------------------------------------- reference definitions
\* the fully sorted input
SortedInput == SortedSeq(input)

\* the rows at positions [offset, offset + limit) of the fully sorted input
ExpectedOutput ==
    LET rest == Drop(SortedInput, IF cfg_offset < Len(input) THEN cfg_offset ELSE Len(input))
    IN  IF _limit = -1 THEN rest ELSE Take(rest, _limit)

\* get_next has returned eos, and has not been called again since
Finished == pc = "opened" /\ calls > 0 /\ eos /\ late = 0

\* the rows of all admitted runs that compare less than or equal to every row of run
RowsNotAbove(run) ==
    {ij \in {<<i, j>> : i \in 1..Len(_sorted_blocks), j \in 1..MaxRows} :
        /\ ij[2] <= Len(_sorted_blocks[ij[1]])
        /\ \A k \in 1..Len(run) : LessEq(_sorted_blocks[ij[1]][ij[2]], run[k])}

\* ---------------------------------------------------------------- claims

\* C1: the concatenation of all rows delivered by successive get_next calls is
\* non-decreasing under the SortDescription, within and across batches.
C1_DeliveredSorted == IsSorted(delivered)

\* C2: once get_next has returned eos, the rows delivered are, as a multiset, the rows at
\* positions [offset, offset + limit) of the sorted input (to its end when limit = -1).
C2_DeliveredIsSlice == Finished => SortedSeq(delivered) = ExpectedOutput

\* C3: with offset 0, the rows delivered under limit L >= 0 are the first L rows of what
\* the operator delivers with no limit, which is the sorted input.
C3_TopNIsPrefix ==
    (Finished /\ cfg_offset = 0) =>
        delivered = IF _limit = -1 THEN SortedInput ELSE Take(SortedInput, _limit)

C3_Witness ==
    /\ Finished /\ cfg_offset = 0 /\ _limit = 1 /\ path = "merge"
    /\ Len(delivered) = 1
    /\ Len(input) = 4
    /\ SumRows(_sorted_blocks) < Len(input)

\* C4: when the heap test discards a run, the admitted runs hold at least offset + limit
\* rows that compare less than or equal to every row of the discarded run.
C4_DiscardKeepsTopK ==
    (last_discarded # <<>> /\ calls = 0 /\ _limit > 0) =>
        Cardinality(RowsNotAbove(last_discarded)) >= cfg_offset + _limit

\* C5: with a limit, the rows delivered over all calls never exceed the limit, a batch is
\* cut where it would cross it, and the call that reaches the limit returns eos.
C5_LimitEnforced ==
    (_limit # -1) =>
        /\ Len(delivered) <= _limit
        /\ _num_rows_returned = Len(delivered)
        /\ (calls > 0 /\ Len(delivered) = _limit) => eos

C5_Witness ==
    /\ _limit = 1 /\ batch_size = 2 /\ cfg_offset = 0 /\ path = "merge"
    /\ Len(block) = 1 /\ eos
    /\ SumRows(_sorted_blocks) >= 2

\* C6 as stated: every get_next call delivers at most batch_size rows, on the single-run
\* fast path as well as on the merge path.
C6_BatchSizeEveryPath == calls > 0 => Len(block) <= batch_size

\* C6 as amended: a merge call delivers at most batch_size rows; the single-run call
\* delivers the whole run after the offset in one block, with eos, whatever batch_size is.
C6_BatchSizeOnMerge ==
    /\ path = "merge" => Len(block) <= batch_size
    /\ path = "single" => eos
    /\ (path = "single" /\ calls = 1 /\ _limit = -1) =>
           Len(block) = IF cfg_offset < Len(input) THEN Len(input) - cfg_offset ELSE 0

C6_Witness ==
    /\ path = "merge" /\ Len(block) = batch_size /\ batch_size = 2 /\ ~eos
    /\ Len(delivered) = 4

\* C7: nulls_direction is -direction under nulls_first and +direction otherwise, and among
\* delivered rows equal on all more significant keys no non-null value precedes a NULL
\* under nulls_first, and no NULL precedes a non-null value otherwise.
C7_NullPlacement ==
    \A k \in 1..Len(_is_asc_order) :
        /\ nulls_direction(k) = IF _nulls_first[k] THEN -direction(k) ELSE direction(k)
        /\ \A i, j \in 1..Len(delivered) :
              (i < j /\ \A m \in 1..(k - 1) : delivered[i][m] = delivered[j][m]) =>
                  IF _nulls_first[k]
                  THEN ~(delivered[i][k] # NULL /\ delivered[j][k] = NULL)
                  ELSE ~(delivered[i][k] = NULL /\ delivered[j][k] # NULL)

\* C8: when the upstream delivers no row, the build phase creates no run, and the first
\* get_next returns eos with no row and leaves the caller's block as it was.
C8_EmptyUpstream ==
    /\ input = <<>> => _sorted_blocks = <<>>
    /\ (input = <<>> /\ calls = 1) => (eos /\ block = <<>> /\ path = "empty")

C8_Witness == input = <<>> /\ calls = 1 /\ eos /\ eos_up /\ pc = "opened"

\* C9: when the offset is larger than the number of input rows, get_next delivers no row
\* and reports eos, on the single-run path and on the merge path.
C9_OffsetBeyondInput ==
    (calls > 0 /\ cfg_offset > Len(input)) => (eos /\ delivered = <<>> /\ block = <<>>)

C9_Witness ==
    /\ calls > 0 /\ cfg_offset > Len(input) /\ path = "merge"
    /\ Len(_sorted_blocks) = 2 /\ eos

\* C10: after close() the expressions, the sorted runs and the run buffer are released.
C10_CloseReleases ==
    (_is_closed /\ pc = "opened") => (exprs = "closed" /\ _sorted_blocks = <<>> /\ _unsorted_block = <<>>)

\* the rows the merge cursors have not passed yet
RECURSIVE RemainingOf(_)
RemainingOf(q) ==
    IF q = {} THEN 0
    ELSE LET i == CHOOSE j \in q : TRUE
         IN  (Len(_sorted_blocks[i]) - _cursors[i]) + RemainingOf(q \ {i})

RemainingRows == RemainingOf(_priority_queue)

\* C11: after a successful open every get_next call either returns eos or takes at least
\* one row off the merge cursors (emitted or consumed by the offset), and the rows left
\* under the cursors never exceed the rows held in the runs: the calls before eos are
\* bounded by that number, so a caller that keeps calling gets eos.
C11_Terminates ==
    [][get_next =>
          /\ RemainingRows <= SumRows(_sorted_blocks)
          /\ eos' \/ RemainingRows' < RemainingRows]_vars

C11_Witness ==
    /\ pc = "opened" /\ path = "merge" /\ calls = 2 /\ eos /\ block = <<>>
    /\ Len(delivered) = 4 /\ batch_size = 2 /\ _priority_queue = {}

\* the rows of run from position cfg_offset onward, in run order
FromOffset(run) == IF cfg_offset >= Len(run) THEN <<>> ELSE Drop(run, cfg_offset)

\* C12 as stated: when the build ended with exactly one run, the first get_next delivers
\* that run's rows from position offset onward, unchanged and in run order, in one call
\* with eos and without using the merge heap.
C12_SingleRunVerbatim ==
    [][(get_next /\ calls = 0 /\ Len(_sorted_blocks) = 1) =>
          /\ block' = FromOffset(_sorted_blocks[1])
          /\ eos' /\ path' = "single"
          /\ _priority_queue = {} /\ _priority_queue' = {} /\ _cursors' = _cursors]_vars

\* C12 as amended: the same, the delivered rows being cut to the first limit rows when a
\* limit is set.
C12_SingleRunUpToLimit ==
    [][(get_next /\ calls = 0 /\ Len(_sorted_blocks) = 1) =>
          /\ block' = IF _limit = -1 THEN FromOffset(_sorted_blocks[1])
                      ELSE Take(FromOffset(_sorted_blocks[1]), _limit)
          /\ eos' /\ path' = "single"
          /\ _priority_queue = {} /\ _priority_queue' = {} /\ _cursors' = _cursors]_vars

C12_Witness ==
    /\ path = "single" /\ calls = 1 /\ eos /\ _limit = 1 /\ cfg_offset = 1
    /\ Len(input) = 3 /\ Len(block) = 1 /\ _priority_queue = {}

\* a build step that appended a run to the run list and pushed its cursor on the pruning
\* heap, evicting nothing
RunAdmitted ==
    /\ Len(_sorted_blocks') = Len(_sorted_blocks) + 1
    /\ SubSeq(_sorted_blocks', 1, Len(_sorted_blocks)) = _sorted_blocks
    /\ _block_priority_queue' = _block_priority_queue \cup {Len(_sorted_blocks) + 1}

\* a build step that threw its run away
RunDiscarded == _sorted_blocks' = _sorted_blocks /\ last_discarded' # <<>>

\* C13: in top-N mode a new run is admitted unconditionally exactly when the admitted
\* runs hold fewer than offset + limit rows; otherwise it is discarded iff its first row
\* is not less than the last row of the pruning heap's top, and admitted (cursor pushed,
\* no run evicted) in every other case.
C13_AdmissionRule ==
    [][(sort_input_run /\ _limit > 0 /\ has_rows(_unsorted_block)) =>
          IF SumRows(_sorted_blocks) < cfg_offset + _limit
          THEN RunAdmitted
          ELSE /\ RunAdmitted \/ RunDiscarded
               /\ RunDiscarded => totally_greater(last_discarded', _sorted_blocks[heap_top])
               /\ RunAdmitted =>
                     ~totally_greater(_sorted_blocks'[Len(_sorted_blocks')],
                                      _sorted_blocks[heap_top])]_vars

\* ------------------------------------------- three runs of disjoint ranges
\* The upstream of the scenario: ScenarioRuns blocks of limit + 1 rows each, the k-th with
\* values of the k-th range in sort order, each block extracted as a run of its own.
ScenarioValues(k) ==
    LET r == IF _is_asc_order[1] THEN k ELSE ScenarioRuns + 1 - k
    IN  {<<v>> : v \in ((r - 1) * ScenarioRange + 1)..(r * ScenarioRange)}

ScenarioArrived == Len(input) \div (_limit + 1)

ScenarioInit == InitKeys(1) /\ _limit \in 1..MaxLimit /\ cfg_offset = 0

ScenarioPull ==
    /\ ScenarioArrived < ScenarioRuns
    /\ sort_input_pull_from([1..(_limit + 1) -> ScenarioValues(ScenarioArrived + 1)],
                            {ScenarioArrived + 1 = ScenarioRuns}, {TRUE})

ScenarioNext ==
    open \/ ScenarioPull \/ sort_input_run \/ get_next \/ reset \/ close \/ cancel

ScenarioSpec == ScenarioInit /\ [][ScenarioNext]_vars

ScenarioBuilt == pc = "opened" /\ calls = 0 /\ ScenarioArrived = ScenarioRuns

BranchOf(n) == IF n = 0 THEN "empty" ELSE IF n = 1 THEN "single" ELSE "merge"

\* C15: when the build has reached the upstream's eos there is one cursor at row 0 per
\* run, and the merge heap holds exactly these cursors if there is more than one run and
\* is empty otherwise; get_next takes the eos branch for no run, the fast path for one
\* run and the merge for more; nothing is delivered, and no heap is built, before the
\* build has completed.
C15_BuildThenDrain ==
    /\ (pc = "opened" /\ calls = 0) =>
          /\ eos_up
          /\ _cursors = [i \in 1..Len(_sorted_blocks) |-> 0]
          /\ _priority_queue = IF Len(_sorted_blocks) > 1 THEN 1..Len(_sorted_blocks) ELSE {}
    /\ calls > 0 => (pc = "opened" /\ path = BranchOf(Len(_sorted_blocks)))
    /\ pc # "opened" =>
          /\ calls = 0 /\ delivered = <<>> /\ path = "none"
          /\ _cursors = <<>> /\ _priority_queue = {}

C15_Witness ==
    /\ pc = "opened" /\ calls = 1 /\ path = "merge" /\ Len(_sorted_blocks) = 3
    /\ Len(block) = 2 /\ _cursors # <<0, 0, 0>>

\* C16: the cancellation flag is polled after every extracted run, discarded runs
\* included: when the flag is set at a run's extraction, open() returns a cancellation
\* error without pulling another upstream block, and the runs admitted so far stay in
\* the run list.
C16_CancelPolledPerRun ==
    [][(sort_input_run /\ has_rows(_unsorted_block) /\ is_cancelled /\ _limit # 0) =>
          /\ pc' = "failed" /\ status' = "Cancelled"
          /\ SubSeq(_sorted_blocks', 1, Len(_sorted_blocks)) = _sorted_blocks]_vars

\* C17: after every run extraction, the run admitted or discarded, the run buffer is a
\* fresh empty buffer before the next upstream block is appended, and no row is in two
\* runs.
C17_FreshBufferPerRun ==
    /\ (pc = "pull" /\ _limit # 0) => buffer_fresh
    /\ calls = 0 => SumRows(_sorted_blocks) + Len(_unsorted_block) <= Len(input)

\* C18: the build loop goes on pulling only while the upstream has not signalled eos and
\* the buffer is below the row threshold, an empty block without eos leaving the buffer
\* as it is; a run is extracted only from a buffer that holds rows, so that during the
\* build every run of the run list has at least one row.
C18_RunsNotEmpty ==
    /\ [](pc = "pull" => (~eos_up /\ Len(_unsorted_block) < BUFFERED_BLOCK_SIZE))
    /\ [](calls = 0 => \A i \in 1..Len(_sorted_blocks) : Len(_sorted_blocks[i]) >= 1)
    /\ [][(sort_input_pull /\ input' = input /\ pc' # "failed") =>
             _unsorted_block' = _unsorted_block]_vars
    /\ [][(sort_input_run /\ Len(_unsorted_block) = 0) =>
             (_sorted_blocks' = _sorted_blocks /\ last_discarded' = <<>>)]_vars

C18_Witness ==
    /\ pc = "pull" /\ calls = 0 /\ Len(_sorted_blocks) = 2
    /\ Len(_sorted_blocks[1]) = BUFFERED_BLOCK_SIZE /\ Len(_sorted_blocks[2]) = 1

\* C19: in plain-sort mode (limit = -1) no row-count cap reaches the in-run sort and
\* every run is sorted in full, for every offset.
C19_PlainModeFullSort ==
    (_limit = -1 /\ calls = 0) =>
        \A i \in 1..Len(_sorted_blocks) : IsSorted(_sorted_blocks[i])

\* the build leaves the runs it has admitted as they are
RunsKeptDuringBuild ==
    [][calls' = 0 => SubSeq(_sorted_blocks', 1, Len(_sorted_blocks)) = _sorted_blocks]_vars

\* the number of leading rows of run that the sort under the cap _offset + _limit orders
OrderedRows(run) ==
    LET cap == cfg_offset + _limit
    IN  IF cap <= 0 \/ cap >= Len(run) THEN Len(run) ELSE cap

C21_ResetFrame ==
    [][reset =>
          /\ _num_rows_skipped' = 0 /\ status' = "OK"
          /\ UNCHANGED <<_sorted_blocks, _unsorted_block, _block_priority_queue,
                         _priority_queue, _cursors, _offset, _num_rows_returned,
                         _num_rows_in_block, _limit, _is_closed, exprs>>]_vars

C21_Witness ==
    /\ pc = "failed" /\ status = "OK" /\ ~_is_closed /\ is_cancelled
    /\ Len(_sorted_blocks) = 2

\* C22: in top-N mode, after every step of the build the row counter equals the sum of
\* the row counts of the runs in the run list, and the pruning heap holds exactly one
\* cursor per admitted run.
C22_CounterIsSumOfRuns ==
    (_limit > 0 /\ calls = 0 /\ pc # "crashed") =>
        /\ _num_rows_in_block = SumRows(_sorted_blocks)
        /\ _block_priority_queue = 1..Len(_sorted_blocks)

\* C23: whenever the build reads the top of the pruning heap to decide about a new run,
\* the heap holds a cursor, for every limit >= 0.
C23_HeapNotEmptyAtTop ==
    [][(sort_input_run /\ Len(_unsorted_block) > 0 /\ _limit # -1
           /\ ~(_num_rows_in_block < _limit)) =>
          _block_priority_queue # {}]_vars

\* C24: once a get_next call has returned eos, every later call returns eos and
\* delivers no row, whichever block the caller passes, on the single-run path and on the
\* merge path.
C24_NothingAfterEos ==
    [][(get_next /\ calls > 0 /\ eos) =>
          (eos' /\ block' = <<>> /\ delivered' = delivered)]_vars

====
